---- MODULE Spec2Model ----
(***************************************************************************)
(* The GitHub contribution dashboard (src/src/dashboard.ts): one run of    *)
(* main(), and the pure statistics functions it calls.  The per-day        *)
(* averages of the stats grid are those of src/unnamed/part_000.           *)
(*                                                                         *)
(* A ContributionDay is a record [date, contributionCount].  A date is the *)
(* day number of its ISO "YYYY-MM-DD" string: ISO date strings of equal    *)
(* length compare (===, <=, localeCompare) exactly as their day numbers.   *)
(* A ContributionWeek is the sequence of its contributionDays, a calendar  *)
(* the sequence of its weeks.                                              *)
(***************************************************************************)
EXTENDS Integers, Sequences, FiniteSets

VARIABLES
    columns,    \* process.stdout.columns: <<>> when undefined, else <<n>>
    gh,         \* what the one `gh api graphql` subprocess call will do
    payload,    \* the contributionCalendar.weeks gh prints when it succeeds
    clock,      \* the instant of the run: [utc |-> date, local |-> date]
    pc,         \* position in main()
    width,      \* main's width
    data,       \* fetchContributions' result: the calendar's weeks
    allDays,    \* main's allDays (the day list the functions are applied to)
    stdout,     \* what console.log wrote, one tag per section or blank line
    stderr,     \* what went to standard error
    exitCode,   \* <<>> while running, <<code>> once the process has ended
    ghCalls,    \* number of execSync invocations
    stats,      \* renderStats' values
    bars,       \* renderBarChart's bar lengths
    quartiles,  \* computeQuartiles' thresholds
    heat        \* renderHeatmap's layout

vars == <<columns, gh, payload, clock, pc, width, data, allDays, stdout,
          stderr, exitCode, ghCalls, stats, bars, quartiles, heat>>

(***************************************************************************)
(* Bounds of the model.                                                    *)
(***************************************************************************)
MaxWeeks == 2       \* weeks in a fetched calendar
MaxWeekLen == 2     \* days in one week (a week may be partial or empty)
MaxLen == 3         \* days in a day list given to the statistics functions
MaxCount == 3       \* largest contributionCount in such a list
MonthDays == 2      \* days per month of the model's calendar
MaxRowWeeks == 7    \* weeks in a calendar given to the heatmap layout alone
MaxBarCount == 10   \* largest contributionCount of a day given to the bar chart
MaxBarFree == 2     \* days of a bar-chart list whose counts vary freely
MaxAvgLen == 8      \* days in a list given to the averages of the stats grid

(***************************************************************************)
(* Program constants.                                                      *)
(***************************************************************************)
DefaultColumns == 80
WidthCap == 100
indent == 2
dayLabelWidth == 6
BarChartDays == 14
WeekDays == 7
MinBarWidth == 20
labelWidth == 8
countWidth == 6

HEATMAP_COLOURS == << <<22, 27, 34>>, <<14, 68, 41>>, <<0, 109, 50>>,
                      <<38, 166, 65>>, <<57, 211, 83>> >>

Min(a, b) == IF a <= b THEN a ELSE b
Max(a, b) == IF a >= b THEN a ELSE b

RECURSIVE SumSeq(_)
SumSeq(s) == IF s = <<>> THEN 0 ELSE Head(s) + SumSeq(Tail(s))

\* Array.prototype.slice(-n): the last n elements (all of them if fewer).
SliceLast(s, n) == SubSeq(s, Max(1, Len(s) - n + 1), Len(s))

\* Array.prototype.slice(k), k >= 0: drop the first k (empty if k >= length).
SliceFrom(s, k) == SubSeq(s, Min(k, Len(s)) + 1, Len(s))

\* String.prototype.localeCompare / (a, b) => a - b, as a sign.
Compare(a, b) == IF a < b THEN -1 ELSE IF a > b THEN 1 ELSE 0

\* Array.prototype.sort with comparator (a, b) => sign * Compare(key a, key b),
\* on the indices of the array (key[i] is the key of element i): the sort is
\* stable, so an index goes after every earlier one not ordered after it.
SortInsert(t, i, key, sign) ==
    LET p == Cardinality({n \in 1..Len(t) : sign * Compare(key[t[n]], key[i]) <= 0})
    IN  SubSeq(t, 1, p) \o <<i>> \o SubSeq(t, p + 1, Len(t))

SortBy(s, key, sign) ==
    LET sorted[n \in 0..Len(s)] ==
            IF n = 0 THEN <<>> ELSE SortInsert(sorted[n - 1], n, key, sign)
    IN  [n \in 1..Len(s) |-> s[sorted[Len(s)][n]]]

Dates(days) == [i \in 1..Len(days) |-> days[i].date]

\* new Date().toISOString().slice(0, 10): the UTC calendar date of the instant.
Today(now) == now.utc

\* new Date(date + 'T00:00:00').getMonth(): the month (0..11) of the date itself.
MonthOf(date) == (date \div MonthDays) % 12

(***************************************************************************)
(* Data processing.                                                        *)
(***************************************************************************)
RECURSIVE getAllDaysDropping(_)
getAllDaysDropping(weeks) ==
    IF Len(weeks) <= 1 THEN <<>>
    ELSE Head(weeks) \o getAllDaysDropping(Tail(weeks))

RECURSIVE getAllDays(_)
getAllDays(weeks) ==
    IF weeks = <<>> THEN <<>> ELSE Head(weeks) \o getAllDays(Tail(weeks))

\* The loop of calculateStreak from index i (1-based) of sorted.
RECURSIVE StreakFrom(_, _)
StreakFrom(sorted, i) ==
    IF i > Len(sorted) THEN 0
    ELSE IF sorted[i].contributionCount > 0 THEN 1 + StreakFrom(sorted, i + 1)
    ELSE 0

\* The same loop with >= 0 in place of > 0.
RECURSIVE StreakFromNonNegative(_, _)
StreakFromNonNegative(sorted, i) ==
    IF i > Len(sorted) THEN 0
    ELSE IF sorted[i].contributionCount >= 0
         THEN 1 + StreakFromNonNegative(sorted, i + 1)
    ELSE 0

calculateStreakNonNegative(days, now) ==
    LET sorted == SortBy(days, Dates(days), -1)
        startIdx == IF /\ sorted # <<>>
                       /\ sorted[1].date = Today(now)
                       /\ sorted[1].contributionCount = 0
                    THEN 1 ELSE 0
    IN  StreakFromNonNegative(sorted, startIdx + 1)

\* Skipping a zero most recent day whatever its date.
calculateStreakSkipAnyZero(days, now) ==
    LET sorted == SortBy(days, Dates(days), -1)
        startIdx == IF /\ sorted # <<>>
                       /\ sorted[1].contributionCount = 0
                    THEN 1 ELSE 0
    IN  StreakFrom(sorted, startIdx + 1)

calculateStreak(days, now) ==
    LET sorted == SortBy(days, Dates(days), -1)
        startIdx == IF /\ sorted # <<>>
                       /\ sorted[1].date = Today(now)
                       /\ sorted[1].contributionCount = 0
                    THEN 1 ELSE 0
    IN  StreakFrom(sorted, startIdx + 1)

\* The same scan without current = 0 on a zero-count day.
calculateLongestStreakNoReset(days) ==
    LET st[n \in 0..Len(days)] ==
            IF n = 0 THEN [longest |-> 0, current |-> 0]
            ELSE LET prev == st[n - 1]
                 IN  IF days[n].contributionCount > 0
                     THEN [longest |-> Max(prev.longest, prev.current + 1),
                           current |-> prev.current + 1]
                     ELSE prev
    IN  st[Len(days)].longest

\* calculateLongestStreak returning the run the list ends with instead of the
\* longest one.
calculateLongestStreakLastRun(days) ==
    LET st[n \in 0..Len(days)] ==
            IF n = 0 THEN [longest |-> 0, current |-> 0]
            ELSE LET prev == st[n - 1]
                 IN  IF days[n].contributionCount > 0
                     THEN [longest |-> Max(prev.longest, prev.current + 1),
                           current |-> prev.current + 1]
                     ELSE [longest |-> prev.longest, current |-> 0]
    IN  st[Len(days)].current

\* The loop's [longest, current] after the first n days.
calculateLongestStreak(days) ==
    LET st[n \in 0..Len(days)] ==
            IF n = 0 THEN [longest |-> 0, current |-> 0]
            ELSE LET prev == st[n - 1]
                 IN  IF days[n].contributionCount > 0
                     THEN [longest |-> Max(prev.longest, prev.current + 1),
                           current |-> prev.current + 1]
                     ELSE [longest |-> prev.longest, current |-> 0]
    IN  st[Len(days)].longest

Counts(days) == [i \in 1..Len(days) |-> days[i].contributionCount]

NonZero(days) == SelectSeq(Counts(days), LAMBDA c : c > 0)

computeQuartilesUnsorted(days) ==
    LET nonZero == NonZero(days)
        n == Len(nonZero)
    IN  IF n = 0 THEN <<1, 2, 3, 4>>
        ELSE <<nonZero[(n \div 4) + 1], nonZero[(n \div 2) + 1],
               nonZero[((3 * n) \div 4) + 1]>>

\* Math.floor(n * 0.25), Math.floor(n * 0.50), Math.floor(n * 0.75) are exact
\* in floating point for every array length: n \div 4, n \div 2, 3n \div 4.
computeQuartiles(days) ==
    LET nonZero == SortBy(NonZero(days), NonZero(days), 1)
        n == Len(nonZero)
    IN  IF n = 0 THEN <<1, 2, 3, 4>>
        ELSE <<nonZero[(n \div 4) + 1], nonZero[(n \div 2) + 1],
               nonZero[((3 * n) \div 4) + 1]>>

getHeatmapLevelSwapped(count, q) ==
    IF count = 0 THEN 0
    ELSE IF count <= q[1] THEN 1
    ELSE IF count <= q[2] THEN 3
    ELSE IF count <= q[3] THEN 2
    ELSE 4

getHeatmapLevel(count, q) ==
    IF count = 0 THEN 0
    ELSE IF count <= q[1] THEN 1
    ELSE IF count <= q[2] THEN 2
    ELSE IF count <= q[3] THEN 3
    ELSE 4

(***************************************************************************)
(* Rendering.                                                              *)
(***************************************************************************)
months == << <<"J","a","n">>, <<"F","e","b">>, <<"M","a","r">>, <<"A","p","r">>,
             <<"M","a","y">>, <<"J","u","n">>, <<"J","u","l">>, <<"A","u","g">>,
             <<"S","e","p">>, <<"O","c","t">>, <<"N","o","v">>, <<"D","e","c">> >>

\* '─'.repeat(width - 2) throws a RangeError for a negative count.
RepeatThrows(n) == n < 0

\* renderStats up to the first console.log: its values, or the TypeError of
\* reading best.contributionCount when allDays[0] is undefined.
StatsThrows(days) == days = <<>>

StatsValues(days, now) ==
    LET sortedDays == SortBy(days, Dates(days), 1)
        today == Today(now)
        found == SelectSeq(sortedDays, LAMBDA d : d.date = today)
        last7 == SliceLast(sortedDays, WeekDays)
        bestOf[n \in 1..Len(sortedDays)] ==
            IF n = 1 THEN sortedDays[1]
            ELSE IF sortedDays[n].contributionCount > bestOf[n - 1].contributionCount
                 THEN sortedDays[n] ELSE bestOf[n - 1]
    IN  [todayCount |-> IF found = <<>> THEN 0 ELSE found[1].contributionCount,
         weekCount |-> SumSeq(Counts(last7)),
         best |-> bestOf[Len(sortedDays)],
         currentStreak |-> calculateStreak(sortedDays, now),
         longestStreak |-> calculateLongestStreak(sortedDays)]

\* x / n when n > 0 and 0 otherwise, as a fraction <<numerator, denominator>>.
PerDay(x, n) == IF n > 0 THEN <<x, n>> ELSE <<0, 1>>

\* The first day of the quarter of today, as the date toISOString prints for
\* its local midnight: the day before when the local zone is east of UTC.
quarterStartOf(today, east) ==
    LET year == (today \div MonthDays) \div 12
        quarterStartMonth == (MonthOf(today) \div 3) * 3
        first == (year * 12 + quarterStartMonth) * MonthDays
    IN  IF east THEN first - 1 ELSE first

\* The per-day averages of the stats grid, with the sums and day counts they
\* are computed from.
Averages(days, now, east) ==
    LET sortedDays == SortBy(days, Dates(days), 1)
        today == Today(now)
        last7 == SliceLast(sortedDays, WeekDays)
        weekCount == SumSeq(Counts(last7))
        weekDaysWithData == Len(SelectSeq(last7, LAMBDA d : d.date <= today))
        thisMonthDays ==
            SelectSeq(sortedDays,
                      LAMBDA d : d.date \div MonthDays = today \div MonthDays
                                 /\ d.date <= today)
        monthTotal == SumSeq(Counts(thisMonthDays))
        quarterStart == quarterStartOf(today, east)
        thisQuarterDays ==
            SelectSeq(sortedDays, LAMBDA d : d.date >= quarterStart /\ d.date <= today)
        quarterTotal == SumSeq(Counts(thisQuarterDays))
    IN  [weekCount |-> weekCount,
         weekDaysWithData |-> weekDaysWithData,
         avgPerDayThisWeek |-> PerDay(weekCount, weekDaysWithData),
         monthTotal |-> monthTotal,
         thisMonthDays |-> Len(thisMonthDays),
         avgPerDayThisMonth |-> PerDay(monthTotal, Len(thisMonthDays)),
         quarterStart |-> quarterStart,
         quarterTotal |-> quarterTotal,
         thisQuarterDays |-> Len(thisQuarterDays),
         avgPerDayThisQuarter |-> PerDay(quarterTotal, Len(thisQuarterDays))]

RECURSIVE Pow2(_)
Pow2(n) == IF n <= 0 THEN 1 ELSE 2 * Pow2(n - 1)

\* floor(log2(n)) for an integer n >= 1.
RECURSIVE FloorLog2(_)
FloorLog2(n) == IF n < 2 THEN 0 ELSE 1 + FloorLog2(n \div 2)

\* The least j with c * 2^j >= m, for 1 <= c <= m: the double c / m has the
\* binary exponent -j.
RECURSIVE ShiftUp(_, _)
ShiftUp(c, m) == IF c >= m THEN 0 ELSE 1 + ShiftUp(2 * c, m)

\* n steps of the long division of rem by m, one quotient bit per step: the
\* remainder left.
RECURSIVE LongDivide(_, _, _)
LongDivide(rem, m, n) == IF n = 0 THEN rem ELSE LongDivide((2 * rem) % m, m, n - 1)

\* c / m in double precision, as the sign of the rounding error: the remainder
\* r of c * 2^(52 + j) = M * m + r, where M is the 53-bit significand rounded
\* to nearest, ties to even.
QuotientRemainder(c, m) ==
    LET first == c * Pow2(ShiftUp(c, m)) - m
        before == LongDivide(first, m, 51)
        rem == (2 * before) % m
        bit == (2 * before) \div m
    IN  IF 2 * rem < m \/ (2 * rem = m /\ bit = 0) THEN rem ELSE rem - m

\* Whether the double product (c / m) * b lies below the tie k + 1/2 that the
\* exact product equals: the quotient was rounded down (r > 0) and b times its
\* error exceeds half the spacing of the doubles just below k + 1/2.
ProductBelowTie(c, m, b, k) ==
    LET r == QuotientRemainder(c, m)
        a == 1 - (FloorLog2(2 * k + 1) - 1) - ShiftUp(c, m) + (IF k = 0 THEN 1 ELSE 0)
    IN  r > 0 /\ b * r * Pow2(a) > m * Pow2(-a)

\* Math.round((count / maxCount) * barMaxWidth) in double precision.  Off a
\* tie the rounding errors (below 2^-50) cannot move the product across a
\* half-integer, at least 1 / (2 maxCount) away; on a tie the product is the
\* tie itself or a double just below it, which Math.round takes down.
BarLen(count, maxCount, barMaxWidth) ==
    LET exact == (2 * count * barMaxWidth + maxCount) \div (2 * maxCount)
        tie == (2 * count * barMaxWidth) % (2 * maxCount) = maxCount
    IN  IF tie /\ ProductBelowTie(count, maxCount, barMaxWidth, exact - 1)
        THEN exact - 1 ELSE exact

RECURSIVE MaxOf(_, _)
MaxOf(s, floor) == IF s = <<>> THEN floor ELSE MaxOf(Tail(s), Max(floor, Head(s)))

BarLengths(days, w) ==
    LET sortedDays == SortBy(days, Dates(days), 1)
        last14 == SliceLast(sortedDays, BarChartDays)
        maxCount == MaxOf(Counts(last14), 1)
        barMaxWidth == Max(MinBarWidth, w - labelWidth - countWidth - 4)
    IN  [i \in 1..Len(last14) |->
            BarLen(last14[i].contributionCount, maxCount, barMaxWidth)]

cellWidthOf(weeks, w) ==
    IF w - indent - dayLabelWidth >= Len(weeks) * 2 THEN 2 ELSE 1

displayWeeksAll(weeks, w) == weeks

displayWeeksOf(weeks, w) ==
    LET available == w - indent - dayLabelWidth
        maxWeeks == Min(Len(weeks), available \div cellWidthOf(weeks, w))
    IN  SliceFrom(weeks, Len(weeks) - maxWeeks)

rowIndicesOf(weeks, w) ==
    IF w - indent - dayLabelWidth >= Len(weeks) * 2
    THEN <<0, 1, 2, 3, 4, 5, 6>> ELSE <<1, 3, 5>>

\* The month labels [col, label], one where the first day's month changes.
monthPositionsOf(displayWeeks, cellWidth) ==
    LET loop[n \in 0..Len(displayWeeks)] ==
            IF n = 0 THEN [pos |-> <<>>, lastMonth |-> -1]
            ELSE LET prev == loop[n - 1]
                     week == displayWeeks[n]
                 IN  IF week = <<>> THEN prev
                     ELSE LET month == MonthOf(week[1].date)
                          IN  IF month # prev.lastMonth
                              THEN [pos |-> Append(prev.pos,
                                               [col |-> (n - 1) * cellWidth,
                                                label |-> months[month + 1]]),
                                    lastMonth |-> month]
                              ELSE prev
    IN  loop[Len(displayWeeks)].pos

\* The month row without the col > lastEnd test.
monthCharsOverlapping(positions, length) ==
    LET loop[n \in 0..Len(positions)] ==
            IF n = 0 THEN [chars |-> [i \in 1..length |-> " "], lastEnd |-> -1,
                           written |-> <<>>]
            ELSE LET prev == loop[n - 1]
                     col == positions[n].col
                     label == positions[n].label
                 IN  IF col + Len(label) <= Len(prev.chars)
                     THEN [chars |-> [i \in 1..Len(prev.chars) |->
                                        IF i - 1 >= col /\ i - 1 < col + Len(label)
                                        THEN label[i - col] ELSE prev.chars[i]],
                           lastEnd |-> col + Len(label),
                           written |-> Append(prev.written, col)]
                     ELSE prev
    IN  loop[Len(positions)]

\* The month row's characters (0-based column c is chars[c + 1]).
monthCharsOf(positions, length) ==
    LET loop[n \in 0..Len(positions)] ==
            IF n = 0 THEN [chars |-> [i \in 1..length |-> " "], lastEnd |-> -1,
                           written |-> <<>>]
            ELSE LET prev == loop[n - 1]
                     col == positions[n].col
                     label == positions[n].label
                 IN  IF col > prev.lastEnd /\ col + Len(label) <= Len(prev.chars)
                     THEN [chars |-> [i \in 1..Len(prev.chars) |->
                                        IF i - 1 >= col /\ i - 1 < col + Len(label)
                                        THEN label[i - col] ELSE prev.chars[i]],
                           lastEnd |-> col + Len(label),
                           written |-> Append(prev.written, col)]
                     ELSE prev
    IN  loop[Len(positions)]

\* One day row: its cells (<<level>> for a day, <<>> for a blank) and the
\* number of columns it occupies, accumulated as row += ... does.
dayRowOf(dayIdx, displayWeeks, cellWidth, q) ==
    LET cells == [n \in 1..Len(displayWeeks) |->
                    IF dayIdx + 1 <= Len(displayWeeks[n])
                    THEN <<getHeatmapLevel(displayWeeks[n][dayIdx + 1].contributionCount, q)>>
                    ELSE <<>>]
    IN  [dayIdx |-> dayIdx, cells |-> cells,
         columns |-> indent + dayLabelWidth
                     + SumSeq([n \in 1..Len(cells) |-> cellWidth])]

HeatmapLayout(weeks, w) ==
    LET q == computeQuartiles(getAllDays(weeks))
        cellWidth == cellWidthOf(weeks, w)
        displayWeeks == displayWeeksOf(weeks, w)
        positions == monthPositionsOf(displayWeeks, cellWidth)
        row == monthCharsOf(positions, Len(displayWeeks) * cellWidth)
        rowIndices == rowIndicesOf(weeks, w)
    IN  [cellWidth |-> cellWidth,
         displayWeeks |-> displayWeeks,
         positions |-> positions,
         chars |-> row.chars,
         written |-> row.written,
         monthRowColumns |-> indent + dayLabelWidth + Len(row.chars),
         rows |-> [r \in 1..Len(rowIndices) |->
                     dayRowOf(rowIndices[r], displayWeeks, cellWidth, q)]]

(***************************************************************************)
(* The environment of a run.                                               *)
(***************************************************************************)
\* Outcomes of the gh subprocess call.  Each of the first five makes a
\* statement inside fetchContributions' try block throw: execSync (binary
\* missing, non-zero exit, timeout), JSON.parse (output that is not JSON), or
\* reading json.data.viewer (JSON without the expected path).
FetchFailures == {"ENOENT", "auth", "timeout", "notjson", "noviewer"}

PayloadCounts == {0, 1}

\* The weeks of a calendar as their contribution counts, before dating.
WeekCounts == UNION {[1..n -> PayloadCounts] : n \in 0..MaxWeekLen}

CalendarCounts == UNION {[1..k -> WeekCounts] : k \in 0..MaxWeeks}

\* The days of a calendar carry consecutive dates, 1 for the oldest day: weeks
\* are chronological and each week's days ascend (section 3 of the data model).
Dated(cc) ==
    LET before[w \in 1..Len(cc)] ==
            IF w = 1 THEN 0 ELSE before[w - 1] + Len(cc[w - 1])
    IN  [w \in 1..Len(cc) |->
            [i \in 1..Len(cc[w]) |->
                [date |-> before[w] + i, contributionCount |-> cc[w][i]]]]

Calendars == {Dated(cc) : cc \in CalendarCounts}

LastDate(weeks) == Len(getAllDays(weeks))

\* Terminal widths: undefined, too narrow for the rule line, around the
\* 8-column gutter of the heatmap, around two columns per week, and wide.
ColumnChoices ==
    {<<>>} \cup {<<c>> : c \in {1, indent + dayLabelWidth - 1, indent + dayLabelWidth,
                                indent + dayLabelWidth + 1,
                                indent + dayLabelWidth + 2 * MaxWeeks - 1,
                                indent + dayLabelWidth + 2 * MaxWeeks,
                                WidthCap + DefaultColumns}}

\* Day lists for the statistics functions: any order, distinct dates, among
\* them dates after today.
DayRecords == [date : 1..(MaxLen + 1), contributionCount : 0..MaxCount]

DayLists ==
    {s \in UNION {[1..n -> DayRecords] : n \in 0..MaxLen} :
        \A i, j \in 1..Len(s) : i # j => s[i].date # s[j].date}

\* The UTC date is MaxLen; the local date is the same day or a neighbour.
Clocks == {[utc |-> MaxLen, local |-> l] : l \in {MaxLen - 1, MaxLen, MaxLen + 1}}

NoStats == [todayCount |-> 0, weekCount |-> 0, best |-> <<>>,
            currentStreak |-> 0, longestStreak |-> 0]

NoHeat == [cellWidth |-> 0, displayWeeks |-> <<>>, positions |-> <<>>,
           chars |-> <<>>, written |-> <<>>, monthRowColumns |-> 0, rows |-> <<>>]

(***************************************************************************)
(* One run of main().                                                      *)
(***************************************************************************)
Init ==
    /\ columns \in ColumnChoices
    /\ gh \in FetchFailures \cup {"ok"}
    /\ payload \in IF gh = "ok" THEN Calendars ELSE {<<>>}
    /\ \E t \in {LastDate(payload), LastDate(payload) + 1} :
          clock = [utc |-> t, local |-> t]
    /\ pc = "main"
    /\ width = 0
    /\ data = <<>>
    /\ allDays = <<>>
    /\ stdout = <<>>
    /\ stderr = <<>>
    /\ exitCode = <<>>
    /\ ghCalls = 0
    /\ stats = NoStats
    /\ bars = <<>>
    /\ quartiles = <<>>
    /\ heat = NoHeat

\* main, lines 356-357: termWidth = columns ?? 80; width = min(termWidth, 100).
ReadWidth ==
    /\ pc = "main"
    /\ width' = Min(IF columns = <<>> THEN DefaultColumns ELSE columns[1], WidthCap)
    /\ pc' = "fetch"
    /\ UNCHANGED <<columns, gh, payload, clock, data, allDays, stdout, stderr,
                   exitCode, ghCalls, stats, bars, quartiles, heat>>

\* fetchContributions, the try block running to its return.
FetchOk ==
    /\ pc = "fetch"
    /\ gh = "ok"
    /\ ghCalls' = ghCalls + 1
    /\ data' = payload
    /\ pc' = "flatten"
    /\ UNCHANGED <<columns, gh, payload, clock, width, allDays, stdout, stderr,
                   exitCode, stats, bars, quartiles, heat>>

\* The catch block without its process.exit(1): main carries on.
FetchFailNoExit ==
    /\ pc = "fetch"
    /\ gh \in FetchFailures
    /\ ghCalls' = ghCalls + 1
    /\ stderr' = stderr \o <<"Failed to fetch GitHub data", "Run gh auth login">>
    /\ pc' = "flatten"
    /\ UNCHANGED <<columns, gh, payload, clock, width, data, allDays, stdout,
                   exitCode, stats, bars, quartiles, heat>>

\* fetchContributions, the catch block: two console.error lines, process.exit(1).
FetchFail ==
    /\ pc = "fetch"
    /\ gh \in FetchFailures
    /\ ghCalls' = ghCalls + 1
    /\ stderr' = stderr \o <<"Failed to fetch GitHub data", "Run gh auth login">>
    /\ exitCode' = <<1>>
    /\ pc' = "exited"
    /\ UNCHANGED <<columns, gh, payload, clock, width, data, allDays, stdout,
                   stats, bars, quartiles, heat>>

\* main, line 360.
GetAllDays ==
    /\ pc = "flatten"
    /\ allDays' = getAllDays(data)
    /\ pc' = "header"
    /\ UNCHANGED <<columns, gh, payload, clock, width, data, stdout, stderr,
                   exitCode, ghCalls, stats, bars, quartiles, heat>>

\* main, lines 362-363: a blank line, then renderHeader.  The title line is
\* written before '─'.repeat(width - 2) is evaluated.
RenderHeader ==
    /\ pc = "header"
    /\ IF RepeatThrows(width - 2)
       THEN /\ stdout' = stdout \o <<"", "header (title line only)">>
            /\ stderr' = Append(stderr, "Uncaught RangeError")
            /\ exitCode' = <<1>>
            /\ pc' = "exited"
       ELSE /\ stdout' = stdout \o <<"", "header">>
            /\ pc' = "stats"
            /\ UNCHANGED <<stderr, exitCode>>
    /\ UNCHANGED <<columns, gh, payload, clock, width, data, allDays, ghCalls,
                   stats, bars, quartiles, heat>>

\* main, lines 364-365: renderStats, then a blank line.
RenderStats ==
    /\ pc = "stats"
    /\ IF StatsThrows(allDays)
       THEN /\ stderr' = Append(stderr, "Uncaught TypeError")
            /\ exitCode' = <<1>>
            /\ pc' = "exited"
            /\ UNCHANGED <<stdout, stats>>
       ELSE /\ stats' = StatsValues(allDays, clock)
            /\ stdout' = stdout \o <<"stats", "">>
            /\ pc' = "bar"
            /\ UNCHANGED <<stderr, exitCode>>
    /\ UNCHANGED <<columns, gh, payload, clock, width, data, allDays, ghCalls,
                   bars, quartiles, heat>>

\* main, lines 366-367: renderBarChart, then a blank line.
RenderBarChart ==
    /\ pc = "bar"
    /\ bars' = BarLengths(allDays, width)
    /\ stdout' = stdout \o <<"bar chart", "">>
    /\ pc' = "heatmap"
    /\ UNCHANGED <<columns, gh, payload, clock, width, data, allDays, stderr,
                   exitCode, ghCalls, stats, quartiles, heat>>

\* main, lines 368-369: renderHeatmap, then a blank line; main returns.
RenderHeatmap ==
    /\ pc = "heatmap"
    /\ quartiles' = computeQuartiles(getAllDays(data))
    /\ heat' = HeatmapLayout(data, width)
    /\ stdout' = stdout \o <<"heatmap", "">>
    /\ exitCode' = <<0>>
    /\ pc' = "exited"
    /\ UNCHANGED <<columns, gh, payload, clock, width, data, allDays, stderr,
                   ghCalls, stats, bars>>

Next ==
    \/ ReadWidth
    \/ FetchOk
    \/ FetchFail
    \/ GetAllDays
    \/ RenderHeader
    \/ RenderStats
    \/ RenderBarChart
    \/ RenderHeatmap

Spec == Init /\ [][Next]_vars

(***************************************************************************)
(* The statistics functions applied to a day list.                         *)
(***************************************************************************)
FnInit ==
    /\ allDays \in DayLists
    /\ clock \in Clocks
    /\ pc = "streaks"
    /\ columns = <<>>
    /\ gh = "ok"
    /\ payload = <<>>
    /\ width = 0
    /\ data = <<>>
    /\ stdout = <<>>
    /\ stderr = <<>>
    /\ exitCode = <<>>
    /\ ghCalls = 0
    /\ stats = NoStats
    /\ bars = <<>>
    /\ quartiles = <<>>
    /\ heat = NoHeat

ApplyStreaks ==
    /\ pc = "streaks"
    /\ stats' = [stats EXCEPT !.currentStreak = calculateStreak(allDays, clock),
                              !.longestStreak = calculateLongestStreak(allDays)]
    /\ pc' = "quartiles"
    /\ UNCHANGED <<columns, gh, payload, clock, width, data, allDays, stdout,
                   stderr, exitCode, ghCalls, bars, quartiles, heat>>

ApplyQuartiles ==
    /\ pc = "quartiles"
    /\ quartiles' = computeQuartiles(allDays)
    /\ pc' = "applied"
    /\ UNCHANGED <<columns, gh, payload, clock, width, data, allDays, stdout,
                   stderr, exitCode, ghCalls, stats, bars, heat>>

FnNext ==
    \/ ApplyStreaks
    \/ ApplyQuartiles

FnSpec == FnInit /\ [][FnNext]_vars

(***************************************************************************)
(* The heatmap layout applied to a calendar.  Only the first day of a week *)
(* enters the month row, so a week here is empty or holds its first day;   *)
(* the first days are 1..MonthDays days apart.                             *)
(***************************************************************************)
RowSteps == UNION {[1..k -> 0..MonthDays] : k \in 0..MaxRowWeeks}

RowDated(steps) ==
    LET date[n \in 0..Len(steps)] == IF n = 0 THEN 0 ELSE date[n - 1] + steps[n]
    IN  [n \in 1..Len(steps) |->
            IF steps[n] = 0 THEN <<>>
            ELSE <<[date |-> date[n], contributionCount |-> date[n] % 2]>>]

RowCalendars == {RowDated(steps) : steps \in RowSteps}

\* Widths that cut a full calendar at one column per week, that show it all
\* at one column per week, and that show it at two.
RowWidths == {indent + dayLabelWidth + MaxRowWeeks - 1,
              indent + dayLabelWidth + 2 * MaxRowWeeks - 1,
              indent + dayLabelWidth + 2 * MaxRowWeeks}

HeatInit ==
    /\ data \in RowCalendars
    /\ width \in RowWidths
    /\ pc = "layout"
    /\ allDays = <<>>
    /\ clock = [utc |-> 0, local |-> 0]
    /\ columns = <<>>
    /\ gh = "ok"
    /\ payload = <<>>
    /\ stdout = <<>>
    /\ stderr = <<>>
    /\ exitCode = <<>>
    /\ ghCalls = 0
    /\ stats = NoStats
    /\ bars = <<>>
    /\ quartiles = <<>>
    /\ heat = NoHeat

ApplyHeatmap ==
    /\ pc = "layout"
    /\ quartiles' = computeQuartiles(getAllDays(data))
    /\ heat' = HeatmapLayout(data, width)
    /\ pc' = "laid out"
    /\ UNCHANGED <<columns, gh, payload, clock, width, data, allDays, stdout,
                   stderr, exitCode, ghCalls, stats, bars>>

HeatNext == ApplyHeatmap

HeatSpec == HeatInit /\ [][HeatNext]_vars

(***************************************************************************)
(* The bar chart applied to a day list: up to MaxBarFree oldest days with  *)
(* any counts, then a run of recent days that all have the same count, in  *)
(* ascending or descending date order.                                     *)
(***************************************************************************)
BarFreeCounts == UNION {[1..n -> 0..MaxBarCount] : n \in 0..MaxBarFree}

BarFillLengths == {0, BarChartDays - 2, BarChartDays - 1, BarChartDays}

BarDays(free, fill, fillCount, descending) ==
    LET counts == free \o [i \in 1..fill |-> fillCount]
        n == Len(counts)
    IN  [i \in 1..n |->
            LET j == IF descending THEN n + 1 - i ELSE i
            IN  [date |-> j, contributionCount |-> counts[j]]]

BarLists ==
    {BarDays(free, fill, fillCount, descending) :
        free \in BarFreeCounts, fill \in BarFillLengths,
        fillCount \in PayloadCounts, descending \in BOOLEAN}

\* Effective widths: the narrowest bars (bar width 20), a 63-column terminal
\* (bar width 45), the default and the cap.
BarWidths == {indent + dayLabelWidth, 63, DefaultColumns, WidthCap}

BarInit ==
    /\ allDays \in BarLists
    /\ width \in BarWidths
    /\ pc = "chart"
    /\ data = <<>>
    /\ clock = [utc |-> 0, local |-> 0]
    /\ columns = <<>>
    /\ gh = "ok"
    /\ payload = <<>>
    /\ stdout = <<>>
    /\ stderr = <<>>
    /\ exitCode = <<>>
    /\ ghCalls = 0
    /\ stats = NoStats
    /\ bars = <<>>
    /\ quartiles = <<>>
    /\ heat = NoHeat

ApplyBarChart ==
    /\ pc = "chart"
    /\ bars' = BarLengths(allDays, width)
    /\ pc' = "charted"
    /\ UNCHANGED <<columns, gh, payload, clock, width, data, allDays, stdout,
                   stderr, exitCode, ghCalls, stats, quartiles, heat>>

BarNext == ApplyBarChart

BarSpec == BarInit /\ [][BarNext]_vars

(***************************************************************************)
(* The averages of the stats grid applied to a day list: consecutive days  *)
(* from date 1 on, in ascending or descending order, read at a UTC date    *)
(* among the last days of the longest list, so that lists end before       *)
(* today, at today or after it.                                            *)
(***************************************************************************)
AvgDays(counts, descending) ==
    LET n == Len(counts)
    IN  [i \in 1..n |->
            LET j == IF descending THEN n + 1 - i ELSE i
            IN  [date |-> j, contributionCount |-> counts[j]]]

AvgLists ==
    {AvgDays(counts, descending) :
        counts \in UNION {[1..n -> PayloadCounts] : n \in 1..MaxAvgLen},
        descending \in BOOLEAN}

AvgClocks ==
    {[utc |-> u, local |-> l] :
        u \in (MaxAvgLen - 2)..MaxAvgLen, l \in (MaxAvgLen - 3)..(MaxAvgLen + 1)}

AvgInit ==
    /\ allDays \in AvgLists
    /\ clock \in AvgClocks
    /\ clock.local \in (clock.utc - 1)..(clock.utc + 1)
    /\ pc = "averages"
    /\ data = <<>>
    /\ width = 0
    /\ columns = <<>>
    /\ gh = "ok"
    /\ payload = <<>>
    /\ stdout = <<>>
    /\ stderr = <<>>
    /\ exitCode = <<>>
    /\ ghCalls = 0
    /\ stats = NoStats
    /\ bars = <<>>
    /\ quartiles = <<>>
    /\ heat = NoHeat

\* The local zone is east of UTC when the local date is ahead of the UTC date,
\* west of it when behind, and either when the two dates agree.
ApplyAverages ==
    /\ pc = "averages"
    /\ \E east \in BOOLEAN :
          /\ clock.local > clock.utc => east
          /\ clock.local < clock.utc => ~east
          /\ stats' = Averages(allDays, clock, east)
    /\ pc' = "averaged"
    /\ UNCHANGED <<columns, gh, payload, clock, width, data, allDays, stdout,
                   stderr, exitCode, ghCalls, bars, quartiles, heat>>

AvgNext == ApplyAverages

AvgSpec == AvgInit /\ [][AvgNext]_vars

(***************************************************************************)
(* Properties.  The helpers below describe the expected results from the   *)
(* day list itself, without the sort and the loops of the functions.       *)
(***************************************************************************)
DaySet(days) == {days[i] : i \in 1..Len(days)}

\* The k-th most recent day of a list of distinctly dated days.
Recent(days, k) ==
    CHOOSE d \in DaySet(days) :
        Cardinality({e \in DaySet(days) : e.date > d.date}) = k - 1

\* Number of consecutive positive-count days counted backward from the k-th
\* most recent day, up to the first zero-count day.
RunBack(days, k) ==
    LET ok(m) == \A j \in k..(k + m - 1) : Recent(days, j).contributionCount > 0
    IN  CHOOSE m \in 0..Len(days) :
            /\ k + m - 1 <= Len(days)
            /\ ok(m)
            /\ \A m2 \in (m + 1)..Len(days) : k + m2 - 1 <= Len(days) => ~ok(m2)

\* Largest length of a run of consecutive positive-count days of the list.
MaxRun(days) ==
    LET runs == {<<i, j>> \in (1..Len(days)) \X (1..Len(days)) :
                    i <= j /\ \A k \in i..j : days[k].contributionCount > 0}
    IN  IF runs = {} THEN 0
        ELSE CHOOSE m \in 1..Len(days) :
                /\ \E r \in runs : r[2] - r[1] + 1 = m
                /\ \A r \in runs : r[2] - r[1] + 1 <= m

\* Element k (0-based) of the ascending arrangement of the nonzero counts:
\* the value with at most k counts below it and more than k not above it.
Ranked(days, k) ==
    LET nz == NonZero(days)
    IN  CHOOSE v \in {nz[i] : i \in 1..Len(nz)} :
            /\ Cardinality({i \in 1..Len(nz) : nz[i] < v}) <= k
            /\ Cardinality({i \in 1..Len(nz) : nz[i] <= v}) > k

StreaksApplied == pc \in {"quartiles", "applied"}

Sections(out) == SelectSeq(out, LAMBDA line : line # "")

AllSections == <<"header", "stats", "bar chart", "heatmap">>

Diagnostic == <<"Failed to fetch GitHub data", "Run gh auth login">>

HeatmapPrinted == pc = "exited" /\ exitCode = <<0>>

\* C1: when the most recent day is today by the local date, has count 0 and
\* the day before it has a positive count, calculateStreak leaves today out
\* and returns the run of positive days ending at yesterday (at least 1).
C1_SkipsLocalToday ==
    (/\ StreaksApplied
     /\ Len(allDays) >= 2
     /\ Recent(allDays, 1).date = clock.local
     /\ Recent(allDays, 1).contributionCount = 0
     /\ Recent(allDays, 2).contributionCount > 0)
    => /\ stats.currentStreak = RunBack(allDays, 2)
       /\ stats.currentStreak >= 1

\* C2: for a day list whose counts are all 0, of any length and whether or not
\* its most recent day is today, calculateStreak and calculateLongestStreak
\* both return 0.
C2_AllZero ==
    (StreaksApplied /\ \A i \in 1..Len(allDays) : allDays[i].contributionCount = 0)
    => stats.currentStreak = 0 /\ stats.longestStreak = 0

C2_Witness ==
    /\ StreaksApplied
    /\ Len(allDays) >= 2
    /\ \A i \in 1..Len(allDays) : allDays[i].contributionCount = 0
    /\ Recent(allDays, 1).date = clock.utc
    /\ clock.local = clock.utc

\* C3: with the thresholds computeQuartiles derives from the day list,
\* getHeatmapLevel never decreases as the count grows.
C3_LevelMonotonic ==
    pc = "applied"
    => \A a, b \in 0..(MaxCount + 1) :
          a <= b => getHeatmapLevel(a, quartiles) <= getHeatmapLevel(b, quartiles)

C3_Witness ==
    /\ pc = "applied"
    /\ quartiles[1] < quartiles[2]
    /\ quartiles[2] < quartiles[3]
    /\ {getHeatmapLevel(c, quartiles) : c \in 0..(MaxCount + 1)} = 0..4

\* C4: for a calendar whose weeks are chronological and whose days ascend
\* within each week, getAllDays returns every day of every week exactly once:
\* as many days as the weeks hold together, day i of week w at the position
\* after all days of the earlier weeks, and the dates strictly ascending.
C4_FlattenKeepsEveryDay ==
    pc \notin {"main", "fetch", "flatten"}
    => LET before[w \in 1..Len(data)] ==
               IF w = 1 THEN 0 ELSE before[w - 1] + Len(data[w - 1])
       IN  /\ Len(allDays) = SumSeq([w \in 1..Len(data) |-> Len(data[w])])
           /\ \A w \in 1..Len(data) : \A i \in 1..Len(data[w]) :
                 allDays[before[w] + i] = data[w][i]
           /\ \A i, j \in 1..Len(allDays) :
                 i < j => allDays[i].date < allDays[j].date

C4_Witness ==
    /\ pc = "header"
    /\ Len(data) = 2
    /\ Len(data[1]) = 2
    /\ Len(data[2]) = 1
    /\ Len(allDays) = 3

C6_AllOrNothing ==
    pc = "exited"
    => \/ Sections(stdout) = AllSections
       \/ /\ Sections(stdout) = <<>>
          /\ stderr = Diagnostic
          /\ exitCode = <<1>>

\* The layout rule of the heatmap: 2 columns per week and all 7 day rows when
\* width - 8 >= 2 x weeks, otherwise 1 column and the Mon/Wed/Fri rows; every
\* row is 2 + 6 + displayed weeks x cell width columns, within the width.
HeatmapFits ==
    LET roomy == width - 8 >= 2 * Len(data)
    IN  /\ heat.cellWidth = IF roomy THEN 2 ELSE 1
        /\ [r \in 1..Len(heat.rows) |-> heat.rows[r].dayIdx]
              = IF roomy THEN <<0, 1, 2, 3, 4, 5, 6>> ELSE <<1, 3, 5>>
        /\ \A r \in 1..Len(heat.rows) :
              /\ heat.rows[r].columns = 2 + 6 + Len(heat.displayWeeks) * heat.cellWidth
              /\ heat.rows[r].columns <= width
        /\ heat.monthRowColumns = 2 + 6 + Len(heat.displayWeeks) * heat.cellWidth
        /\ heat.monthRowColumns <= width

\* C7 as stated: for every terminal width, every heatmap day row and the month
\* row stay within the effective width.
C7_RowsFitAnyWidth == HeatmapPrinted => HeatmapFits

\* C7, amended: the same for every effective width of at least 8 columns, the
\* width of the indent and the day label that start each row.
C7_RowsFitFromWidth8 == (HeatmapPrinted /\ width >= 8) => HeatmapFits

C7_Witness ==
    /\ HeatmapPrinted
    /\ width >= 8
    /\ heat.cellWidth = 1
    /\ Len(heat.displayWeeks) >= 1
    /\ Len(heat.displayWeeks) < Len(data)
    /\ heat.rows[1].columns = width

C9_LongestRun ==
    StreaksApplied => stats.longestStreak = MaxRun(allDays)

C9_Witness ==
    /\ StreaksApplied
    /\ Len(allDays) = 3
    /\ \A i \in 1..2 : allDays[i].date < allDays[i + 1].date
    /\ allDays[1].contributionCount > 0
    /\ allDays[2].contributionCount = 0
    /\ allDays[3].contributionCount = 0
    /\ stats.longestStreak = 1

\* C10: with n >= 1 nonzero counts, sorted ascending as s, computeQuartiles
\* returns s[floor(n/4)], s[floor(n/2)], s[floor(3n/4)], each index within
\* 0..n-1, and [1,2,3,4] when n = 0; getHeatmapLevel maps 0 and only 0 to
\* level 0 and any other count to 1 plus the number of the three thresholds
\* strictly below it, always an index of the 5-colour palette.
C10_QuartilesAndLevels ==
    pc = "applied"
    => LET n == Len(NonZero(allDays))
       IN  /\ n = 0 => quartiles = <<1, 2, 3, 4>>
           /\ n >= 1 =>
                 /\ {n \div 4, n \div 2, (3 * n) \div 4} \subseteq 0..(n - 1)
                 /\ quartiles = <<Ranked(allDays, n \div 4),
                                  Ranked(allDays, n \div 2),
                                  Ranked(allDays, (3 * n) \div 4)>>
           /\ \A c \in 0..(MaxCount + 1) :
                 LET level == getHeatmapLevel(c, quartiles)
                 IN  /\ level = 0 <=> c = 0
                     /\ c > 0 => level = 1 + Cardinality({i \in 1..3 : quartiles[i] < c})
                     /\ level + 1 \in DOMAIN HEATMAP_COLOURS

C10_Witness ==
    /\ pc = "applied"
    /\ Len(NonZero(allDays)) = 3
    /\ Counts(allDays) = <<3, 1, 2>>
    /\ quartiles = <<1, 2, 3>>

\* The displayed weeks (1-based) that are candidates for a month label: a week
\* with a first day whose month differs from that of the nearest earlier
\* displayed week that has a first day, or that has no such earlier week.
LabelWeeks(dw) ==
    {n \in 1..Len(dw) :
        /\ dw[n] # <<>>
        /\ LET earlier == {m \in 1..(n - 1) : dw[m] # <<>>}
           IN  \/ earlier = {}
               \/ LET m == CHOOSE x \in earlier : \A y \in earlier : y <= x
                  IN  MonthOf(dw[m][1].date) # MonthOf(dw[n][1].date)}

\* The 3-letter name of the month of week n's first day.
LabelOf(dw, n) == months[MonthOf(dw[n][1].date) + 1]

\* C11: a candidate label exists at each displayed week column whose first
\* day's month differs from the previous displayed week's month.  Every label
\* written lies wholly inside the row (column + 3 <= row length); two written
\* labels do not overlap and have at least one blank column between them; a
\* candidate that would break either condition is skipped and written nowhere:
\* outside the written labels the row is blank.
C11_MonthLabels ==
    pc = "laid out"
    => LET dw == heat.displayWeeks
           cw == heat.cellWidth
           row == heat.chars
           cand == LabelWeeks(dw)
           Col(n) == (n - 1) * cw
           \* candidate n is written: its three letters stand at its column and
           \* no column before it inside an earlier written label holds it
           Fits(n, W) == /\ Col(n) + 3 <= Len(row)
                         /\ \A m \in W : m < n => Col(n) > Col(m) + 3
           W == CHOOSE S \in SUBSET cand : \A n \in cand : n \in S <=> Fits(n, S)
       IN  /\ Len(row) = Len(dw) * cw
           /\ heat.positions =
                 [i \in 1..Cardinality(cand) |->
                    LET n == CHOOSE x \in cand :
                                Cardinality({m \in cand : m < x}) = i - 1
                    IN  [col |-> Col(n), label |-> LabelOf(dw, n)]]
           /\ \E S \in SUBSET cand : \A n \in cand : n \in S <=> Fits(n, S)
           /\ \A n \in W :
                 /\ Col(n) + 3 <= Len(row)
                 /\ \A k \in 1..3 : row[Col(n) + k] = LabelOf(dw, n)[k]
           /\ \A m, n \in W :
                 m < n => /\ Col(n) >= Col(m) + 4
                          /\ row[Col(m) + 4] = " "
           /\ \A i \in 1..Len(row) :
                 (\A n \in W : ~(Col(n) < i /\ i <= Col(n) + 3)) => row[i] = " "

C11_Witness ==
    /\ pc = "laid out"
    /\ heat.cellWidth = 1
    /\ Len(heat.displayWeeks) = 7
    /\ LabelWeeks(heat.displayWeeks) = {1, 3, 4, 5, 6}
    /\ heat.chars = <<"F", "e", "b", " ", "M", "a", "y">>

\* The days of the bar chart: the (at most) 14 days of the list with the
\* latest dates, as the set of their positions in the list.
ChartDays(days) ==
    {i \in 1..Len(days) :
        Cardinality({j \in 1..Len(days) : days[j].date > days[i].date}) < 14}

\* C12: over the last 14 days (fewer if the list is shorter) each bar length is
\* round(count / max x barMaxWidth), with max the largest count among those
\* days but at least 1 and barMaxWidth = max(20, width - 18); so every bar
\* length is an integer in 0..barMaxWidth, a zero-count day has length 0, a day
\* holding the maximum positive count has length barMaxWidth, and the length
\* does not decrease as the count grows.
C12_BarLengths ==
    pc = "charted"
    => LET shown == ChartDays(allDays)
           counts == {allDays[i].contributionCount : i \in shown}
           top == CHOOSE c \in counts \cup {1} : \A d \in counts \cup {1} : d <= c
           barMaxWidth == IF width - 18 >= 20 THEN width - 18 ELSE 20
           \* the bar of the day at position i of the list: bars are printed
           \* oldest first
           Bar(i) == bars[1 + Cardinality({j \in shown :
                                             allDays[j].date < allDays[i].date})]
       IN  /\ Len(bars) = Cardinality(shown)
           /\ Len(bars) = IF Len(allDays) < 14 THEN Len(allDays) ELSE 14
           /\ \A i \in shown :
                 LET c == allDays[i].contributionCount
                 IN  /\ 2 * top * Bar(i) <= 2 * c * barMaxWidth + top
                     /\ 2 * c * barMaxWidth + top < 2 * top * (Bar(i) + 1)
                     /\ Bar(i) \in 0..barMaxWidth
                     /\ c = 0 => Bar(i) = 0
                     /\ c = top => Bar(i) = barMaxWidth
           /\ \A i, j \in shown :
                 allDays[i].contributionCount <= allDays[j].contributionCount
                 => Bar(i) <= Bar(j)

\* Sum of the contribution counts of a set of days.
RECURSIVE SumOver(_)
SumOver(S) ==
    IF S = {} THEN 0
    ELSE LET d == CHOOSE e \in S : TRUE
         IN  d.contributionCount + SumOver(S \ {d})

\* Whether the fraction avg is the per-day average over the set S of days:
\* their sum over their number, and 0 when there are none.
AverageOver(avg, S) ==
    /\ avg[2] > 0
    /\ IF S = {} THEN avg[1] = 0
       ELSE avg[1] * Cardinality(S) = SumOver(S) * avg[2]

\* C13: each per-day average (this week, this month, this quarter) is taken
\* over the days of its period dated on or before today and no others: the sum
\* and the day count are over exactly that set, and the average is 0 when the
\* set is empty, also for lists holding days after today.
C13_AveragesUpToToday ==
    pc = "averaged"
    => LET today == clock.utc
           upTo == {d \in DaySet(allDays) : d.date <= today}
           week == {d \in upTo :
                      Cardinality({e \in DaySet(allDays) : e.date > d.date}) < 7}
           month == {d \in upTo : d.date \div MonthDays = today \div MonthDays}
           quarter == {d \in upTo : d.date >= stats.quarterStart}
       IN  /\ AverageOver(stats.avgPerDayThisWeek, week)
           /\ AverageOver(stats.avgPerDayThisMonth, month)
           /\ AverageOver(stats.avgPerDayThisQuarter, quarter)

\* Whether a list is in ascending date order.
Ascending(days) == \A i \in 1..(Len(days) - 1) : days[i].date < days[i + 1].date

\* C14: on a non-empty date-ascending list the current streak is never larger
\* than the longest streak.
C14_CurrentWithinLongest ==
    (StreaksApplied /\ allDays # <<>> /\ Ascending(allDays))
    => stats.currentStreak <= stats.longestStreak

\* An ascending list of three days ending today with a zero count after two
\* positive days: today is skipped and both streaks are 2.
C14_Witness ==
    /\ StreaksApplied
    /\ Len(allDays) = 3
    /\ Ascending(allDays)
    /\ allDays[3].date = clock.utc
    /\ allDays[3].contributionCount = 0
    /\ stats.currentStreak = 2
    /\ stats.longestStreak = 2

====
